---- MODULE Spec2Model ----
(***************************************************************************)
(* File-to-draft processing pipeline of the Printify automation server:    *)
(* the folder watcher (services/folderWatcher.ts), the pipeline engine     *)
(* processImage, the HTTP upload and retry routes (routes/api.ts), the     *)
(* products / logs / settings tables (db/init.ts) and the remote catalog   *)
(* seen through uploadImageToPrintify / createProductDraft.                *)
(*                                                                         *)
(* Node runs every handler to its next `await` without interleaving, so    *)
(* each action below is one synchronous segment of a handler: from its     *)
(* start (or from the resolution of the promise it awaited) to the next    *)
(* await or to its return.                                                 *)
(***************************************************************************)
EXTENDS Naturals, Sequences, FiniteSets, TLC

\* ---- bounds of the model ------------------------------------------------
MaxItems == 2        \* rows ever inserted into products
MaxClock == 1        \* seconds the database clock advances

\* ---- finite input domains -----------------------------------------------
DropNames == {"a.png"}      \* files dropped into the watched directory
UploadNames == {"b.jpg"}    \* `${Date.now()}-${originalname}` of an upload
AnalyzeNames == {"c.jpeg"}  \* the same, of an image sent to /analyze
\* the same, of the files of a bulk upload
BulkNames == {"1-g.png", "2-h.jpg"}
\* files of other kinds written into the watched directory
OtherNames == {"d.PNG", "e.txt", ".f.png"}
Filenames == DropNames \cup UploadNames \cup AnalyzeNames \cup OtherNames
Analyses == {"Sunset Tee"}
AnalyzerErrors == {"No response from Gemini"}
\* the errors of getShopId and getApiKey
PRINTIFY_SHOP_ID_Error == "PRINTIFY_SHOP_ID not configured"
PRINTIFY_API_KEY_Error == "PRINTIFY_API_KEY not configured"
\* what uploadImageToPrintify and createProductDraft reject with: an HTTP
\* error of the catalog, or a credential that is not configured
UploadErrors == {"Printify API error: 500 - upload", PRINTIFY_API_KEY_Error}
DraftErrors == {"Printify API error: 400 - draft", PRINTIFY_SHOP_ID_Error}
ReadError == "ENOENT: no such file or directory, open"
RenameError == "ENOENT: no such file or directory, rename"

\* SQL NULL of a TEXT column.  The catalog returns a fresh handle to every
\* call; the handle returned to run r is modelled as r (a run uploads one
\* image and creates at most one draft), with 0 for a NULL column.
Null == "NULL"
NoHandle == 0

\* no bulk upload is being served
NoBulk ==
    [pc |-> "idle", files |-> <<>>, results |-> <<>>, run |-> 0,
     status |-> 0]

\* no collaborator call has been made
NoCall == [fn |-> "none"]

VARIABLES
    items,           \* products table: row id = index
    logs,            \* logs table: logs[p] = the rows with product_id p,
                     \* in insertion order
    settings,        \* settings table (key -> value)
    processedFiles,  \* folderWatcher.ts module-level Set
    fs,              \* files on disk: set of <<dir, name>>
    events,          \* chokidar "add" events emitted and not yet handled
    run,             \* processImage invocations; run[i] works on row i;
                     \* current: started by the process now running
    images,          \* catalog: handles of the images uploaded so far
    drafts,          \* catalog: draft products created so far
    now,             \* the database clock (CURRENT_TIMESTAMP)
    bulk,            \* the POST /upload-bulk request being served
    env,             \* process.env: which credentials are configured
    call             \* the collaborator call last made, with its result

vars == <<items, logs, settings, processedFiles, fs,
          events, run, images, drafts, now, bulk, env, call>>

\* ---- paths ----------------------------------------------------------------
uploadsDir == "uploads"
processedDir == "processed"

join(dir, name) == <<dir, name>>
basename(p) == p[2]
existsSync(p) == p \in fs

\* path.extname of the model's file names
extname(f) ==
    CASE f = "a.png" -> ".png"
      [] f = "b.jpg" -> ".jpg"
      [] f = "c.jpeg" -> ".jpeg"
      [] f = "d.PNG" -> ".PNG"
      [] f = "e.txt" -> ".txt"
      [] f = ".f.png" -> ".png"
      [] f = "1-g.png" -> ".png"
      [] f = "2-h.jpg" -> ".jpg"
      [] OTHER -> ""

\* String.prototype.toLowerCase on the extensions above
toLowerCase(ext) ==
    CASE ext = ".PNG" -> ".png"
      [] OTHER -> ext

\* a watcher without the ignored option
ignored_Nothing(f) == FALSE

\* chokidar's ignored: /(^|[\/\\])\../ matches the dot-prefixed names
ignored(f) == f \in {".f.png"}

\* the chokidar "error" event
ErrorEvent == "error"

VALID_EXTENSIONS == {".png", ".jpg", ".jpeg"}

\* the value the setting had when the database was initialised
getSetting_Default(key) == "true"

\* SELECT value FROM settings WHERE key = ?; null when there is no row
getSetting(key) == IF key \in DOMAIN settings THEN settings[key] ELSE Null

\* the rows initDatabase inserts when their key is absent
defaultSettings ==
    [blueprint_id |-> "145", print_provider_id |-> "99",
     default_price |-> "1999", variant_ids |-> "[]", auto_process |-> "true"]

\* an initDatabase that inserts with INSERT OR REPLACE
initDatabase_Replace(stored) ==
    [k \in DOMAIN stored \cup DOMAIN defaultSettings |->
        IF k \in DOMAIN defaultSettings THEN defaultSettings[k]
        ELSE stored[k]]

\* the settings table after initDatabase: INSERT OR IGNORE of each default;
\* CREATE TABLE IF NOT EXISTS leaves products and logs as they are
initDatabase(stored) ==
    [k \in DOMAIN stored \cup DOMAIN defaultSettings |->
        IF k \in DOMAIN stored THEN stored[k] ELSE defaultSettings[k]]

\* the settings table after setSetting(key, value): an upsert of one row
upsert(stored, key, value) ==
    [k \in DOMAIN stored \cup {key} |->
        IF k = key THEN value ELSE stored[k]]

\* ---- createProductDraft ------------------------------------------------------
\* values of the variant_ids setting: the text of the settings page's
\* "Variant IDs (JSON array)" field
VariantSettings == {"", "[]", "[12345]", "[12346, 12345]"}
PriceSettings == {"1999", "2500"}

\* JSON.parse of the texts above
JSON_parse(text) ==
    CASE text = "[]" -> <<>>
      [] text = "[12345]" -> <<12345>>
      [] text = "[12346, 12345]" -> <<12346, 12345>>

\* parseInt of the numeric settings
parseInt(text) ==
    CASE text = "145" -> 145
      [] text = "99" -> 99
      [] text = "1999" -> 1999
      [] text = "2500" -> 2500

\* JavaScript's a || b on setting texts: null and "" are falsy
OrElse(a, b) == IF a = Null \/ a = "" THEN b ELSE a

VariantCap == 100

\* what the catalog answers to the variants request: the variants of the
\* blueprint in the catalog's order; none, a few, exactly VariantCap, and
\* more than VariantCap
CatalogVariants ==
    {<<>>,
     <<[id |-> 70003, title |-> "M"], [id |-> 70001, title |-> "S"],
       [id |-> 70002, title |-> "L"]>>,
     [i \in 1..VariantCap |-> [id |-> 80000 + i, title |-> "V"]],
     [i \in 1..VariantCap + 1 |-> [id |-> 90000 - i, title |-> "V"]]}

\* the content argument of createProductDraft
Contents ==
    {[title |-> "Sunset Tee", description |-> d, bullets |-> b, tags |-> t] :
        d \in {"A tee", ""},
        b \in {<<>>, <<"Soft">>, <<"Soft", "Bold">>},
        t \in {<<>>, <<"tee", "sun">>}}

\* U+2022 BULLET; the strings of this module are ASCII
BulletMarker == "*"

Min(a, b) == IF a < b THEN a ELSE b

\* a slice that ignores its end index
slice_All(seq, end) == seq

\* Array.prototype.slice(0, end)
slice(seq, end) == SubSeq(seq, 1, Min(end, Len(seq)))

\* Array.prototype.join without its argument: the separator is a comma
RECURSIVE Array_join_Comma(_, _)
Array_join_Comma(lines, sep) ==
    IF Len(lines) = 0 THEN ""
    ELSE IF Len(lines) = 1 THEN lines[1]
    ELSE lines[1] \o "," \o Array_join_Comma(Tail(lines), sep)

\* Array.prototype.join(sep)
RECURSIVE Array_join(_, _)
Array_join(lines, sep) ==
    IF Len(lines) = 0 THEN ""
    ELSE IF Len(lines) = 1 THEN lines[1]
    ELSE lines[1] \o sep \o Array_join(Tail(lines), sep)

\* getAvailableVariants: response.variants.map(v => v.id)
getAvailableVariants(catalog) == [k \in 1..Len(catalog) |-> catalog[k].id]

\* createProductDraft up to its POST: the payload it sends and whether it
\* fetched the variants, or the error of getShopId / getApiKey; stored is
\* the settings table, environment is process.env
createProductDraft(imageId, content, catalog, stored, environment) ==
    LET setting(key) == IF key \in DOMAIN stored THEN stored[key] ELSE Null
        blueprintId == parseInt(OrElse(setting("blueprint_id"), "145"))
        printProviderId ==
            parseInt(OrElse(setting("print_provider_id"), "99"))
        defaultPrice == parseInt(OrElse(setting("default_price"), "1999"))
        variantIds == JSON_parse(OrElse(setting("variant_ids"), "[]"))
        fetch == Len(variantIds) = 0
        variants ==
            IF fetch
            THEN slice(getAvailableVariants(catalog), VariantCap)
            ELSE variantIds
        fullDescription ==
            Array_join(<<content.description, "">>
                          \o [k \in 1..Len(content.bullets) |->
                                 BulletMarker \o " " \o content.bullets[k]],
                       "\n")
    IN  IF ~environment.PRINTIFY_SHOP_ID
        THEN [ok |-> FALSE, error |-> PRINTIFY_SHOP_ID_Error]
        ELSE IF ~environment.PRINTIFY_API_KEY
        THEN [ok |-> FALSE, error |-> PRINTIFY_API_KEY_Error]
        ELSE [ok |-> TRUE,
              fetched |-> fetch,
              payload |->
                [title |-> content.title,
                 description |-> fullDescription,
                 blueprint_id |-> blueprintId,
                 print_provider_id |-> printProviderId,
                 variants |-> [k \in 1..Len(variants) |->
                                 [id |-> variants[k], price |-> defaultPrice,
                                  is_enabled |-> TRUE]],
                 print_areas |-> <<[variant_ids |-> variants,
                                    position |-> "front",
                                    image |-> imageId]>>,
                 tags |-> content.tags]]

\* ---- analyzeImage ---------------------------------------------------------------
\* JSON values of the fields of a reply
JsonString(text) == [type |-> "string", text |-> text, elems |-> <<>>]
JsonArray(seq) == [type |-> "array", text |-> "", elems |-> seq]
JsonNull == [type |-> "null", text |-> "", elems |-> <<>>]

REQUIRED_FIELDS == {"title", "description", "bullets", "tags"}

\* the values a field of the analyzer's JSON object takes in the model
FieldValues(k) ==
    CASE k = "title" -> {JsonString("Sunset Tee"), JsonString("")}
      [] k = "description" -> {JsonString("A tee")}
      [] k = "bullets" -> {JsonArray(<<"Soft">>), JsonArray(<<>>), JsonNull}
      [] k = "tags" -> {JsonArray(<<"tee">>)}

\* the JSON objects: any subset of the four fields, each with one of its
\* values
JsonObjects ==
    UNION {[present -> UNION {FieldValues(k) : k \in present}] :
              present \in SUBSET REQUIRED_FIELDS}

WellTyped(obj) == \A k \in DOMAIN obj : obj[k] \in FieldValues(k)

\* what result.response.text() can be: nothing, prose without an object,
\* text between braces that is not JSON, or a JSON object, bare or inside a
\* markdown fence
Replies ==
    {[text |-> t, object |-> <<>>] : t \in {"empty", "prose", "not json"}}
       \cup {[text |-> t, object |-> obj] :
                t \in {"json", "fenced json"},
                obj \in {o \in JsonObjects : WellTyped(o)}}

\* JavaScript truthiness of a JSON value: "" and null are falsy, an array
\* is truthy even when it is empty
Truthy(v) ==
    CASE v.type = "string" -> v.text # ""
      [] v.type = "array" -> TRUE
      [] v.type = "null" -> FALSE

\* !parsed[k]: the field is absent (undefined) or falsy
Missing(obj, k) == IF k \in DOMAIN obj THEN ~Truthy(obj[k]) ELSE TRUE

\* text.match(/\{[\s\S]*\}/): the text has an opening and a later closing
\* brace
jsonMatch(reply) == reply.text \in {"not json", "json", "fenced json"}

\* JSON.parse succeeds on the matched text
Parses(reply) == reply.text \in {"json", "fenced json"}

NoResponseError == "No response from Gemini"
NoJsonError == "No JSON returned from Gemini"
SyntaxErrorMessage == "Failed to parse image analysis: SyntaxError"
MissingFieldsError ==
    "Failed to parse image analysis: Error: Missing required fields in Gemini response"

\* an analyzeImage that validates the title only
analyzeImage_TitleOnly(reply) ==
    IF reply.text = "empty"
    THEN [ok |-> FALSE, error |-> NoResponseError, value |-> <<>>]
    ELSE IF ~jsonMatch(reply)
    THEN [ok |-> FALSE, error |-> NoJsonError, value |-> <<>>]
    ELSE IF ~Parses(reply)
    THEN [ok |-> FALSE, error |-> SyntaxErrorMessage, value |-> <<>>]
    ELSE IF Missing(reply.object, "title")
    THEN [ok |-> FALSE, error |-> MissingFieldsError, value |-> <<>>]
    ELSE [ok |-> TRUE, error |-> Null, value |-> reply.object]

\* analyzeImage after the analyzer service answered: the parsed object, or
\* the error it throws
analyzeImage(reply) ==
    IF reply.text = "empty"
    THEN [ok |-> FALSE, error |-> NoResponseError, value |-> <<>>]
    ELSE IF ~jsonMatch(reply)
    THEN [ok |-> FALSE, error |-> NoJsonError, value |-> <<>>]
    ELSE IF ~Parses(reply)
    THEN [ok |-> FALSE, error |-> SyntaxErrorMessage, value |-> <<>>]
    ELSE IF \E k \in REQUIRED_FIELDS : Missing(reply.object, k)
    THEN [ok |-> FALSE, error |-> MissingFieldsError, value |-> <<>>]
    ELSE [ok |-> TRUE, error |-> Null, value |-> reply.object]

\* ---- rows -----------------------------------------------------------------
\* an INSERT that leaves status to the column default
NewProduct_DefaultStatus(fileName) ==
    [filename |-> fileName, status |-> "pending", title |-> Null,
     printify_image_id |-> NoHandle, printify_product_id |-> NoHandle,
     error_message |-> Null, updated_at |-> now]

\* INSERT INTO products (filename, status) VALUES (?, 'processing')
NewProduct(fileName) ==
    [filename |-> fileName, status |-> "processing", title |-> Null,
     printify_image_id |-> NoHandle, printify_product_id |-> NoHandle,
     error_message |-> Null, updated_at |-> now]

LogRow(productId, action, status, message) ==
    [product_id |-> productId, action |-> action, status |-> status,
     message |-> message]

\* logAction inserts one row into logs
logAction(lg, productId, action, status, message) ==
    IF productId \in DOMAIN lg
    THEN [lg EXCEPT ![productId] =
              Append(@, LogRow(productId, action, status, message))]
    ELSE Append(lg, <<LogRow(productId, action, status, message)>>)

\* ---- processImage -----------------------------------------------------------
NewRun(filePath, archive, origin, retryOf) ==
    [pc |-> "analyze", filePath |-> filePath, processedDir |-> archive,
     fileName |-> basename(filePath), origin |-> origin, retryOf |-> retryOf,
     analysis |-> Null, uploadedImage |-> NoHandle, product |-> NoHandle,
     calls |-> {}, failed |-> "none", moved |-> FALSE,
     ret |-> [success |-> FALSE, error |-> Null],
     current |-> TRUE]

\* a catch block that sets the status and drops the message
CatchItems_NoMessage(its, r, m) ==
    [its EXCEPT ![r].status = "error", ![r].updated_at = now]

\* the catch block of processImage: UPDATE status='error', error_message;
\* logAction(error); return {success:false, productId, error}
\* a catch block whose UPDATE selects the rows by filename
CatchItems_ByFilename(its, r, m) ==
    [i \in 1..Len(its) |->
        IF its[i].filename = its[r].filename
        THEN [its[i] EXCEPT !.status = "error", !.error_message = m,
                            !.updated_at = now]
        ELSE its[i]]

\* a catch block that also clears what the earlier stages stored
CatchItems_ClearsFields(its, r, m) ==
    [its EXCEPT ![r].status = "error", ![r].error_message = m,
                ![r].title = Null, ![r].printify_image_id = NoHandle,
                ![r].updated_at = now]

\* a catch block that stores the message and leaves the status
CatchItems_KeepsStatus(its, r, m) ==
    [its EXCEPT ![r].error_message = m, ![r].updated_at = now]

CatchItems(its, r, m) ==
    [its EXCEPT ![r].status = "error", ![r].error_message = m,
                ![r].updated_at = now]

\* a catch block that does not log
CatchLogs_Silent(lg, r, m) == lg

CatchLogs(lg, r, m) == logAction(lg, r, "error", "error", m)

CatchRun(rn, r, stage, m) ==
    [rn EXCEPT ![r].pc = "done", ![r].failed = stage,
               ![r].ret = [success |-> FALSE, error |-> m]]

\* a processImage that does not add the filename to processedFiles
processImage_NoClaim(filePath, archive, origin, retryOf, its, files, readOk) ==
    LET fileName == basename(filePath)
        productId == Len(its) + 1
        its1 == Append(its, NewProduct(fileName))
        lg1 == logAction(logs, productId, "processing_started", "info",
                         "Started processing")
        rn1 == Append(run, NewRun(filePath, archive, origin, retryOf))
    IN  /\ Len(its) < MaxItems
        /\ processedFiles' = processedFiles
        /\ IF filePath \in files /\ readOk
           THEN /\ items' = its1
                /\ logs' = logAction(lg1, productId, "analyzing", "info",
                                     "Analyzing image with AI")
                /\ run' = [rn1 EXCEPT ![productId].calls = {"analyze"}]
           ELSE /\ items' = CatchItems(its1, productId, ReadError)
                /\ logs' = CatchLogs(lg1, productId, ReadError)
                /\ run' = CatchRun(rn1, productId, "read", ReadError)

\* processImage from its first line to `await analyzeImage(...)`, or to its
\* return when readFileSync throws.  its is the products table the call
\* finds (the retry route has already updated it).
processImage(filePath, archive, origin, retryOf, its, files, readOk) ==
    LET fileName == basename(filePath)
        productId == Len(its) + 1
        its1 == Append(its, NewProduct(fileName))
        lg1 == logAction(logs, productId, "processing_started", "info",
                         "Started processing")
        rn1 == Append(run, NewRun(filePath, archive, origin, retryOf))
    IN  /\ Len(its) < MaxItems
        /\ processedFiles' = processedFiles \cup {fileName}
        /\ IF filePath \in files /\ readOk
           THEN /\ items' = its1
                /\ logs' = logAction(lg1, productId, "analyzing", "info",
                                     "Analyzing image with AI")
                /\ run' = [rn1 EXCEPT ![productId].calls = {"analyze"}]
           ELSE /\ items' = CatchItems(its1, productId, ReadError)
                /\ logs' = CatchLogs(lg1, productId, ReadError)
                /\ run' = CatchRun(rn1, productId, "read", ReadError)

\* ---- the watcher ------------------------------------------------------------
\* a file is written into the watched directory (a new one, or one replacing
\* the file of that name); chokidar emits "add" for it
DropFile(f) ==
    /\ f \notin events
    /\ fs' = fs \cup {join(uploadsDir, f)}
    /\ events' = IF ignored(f) THEN events ELSE events \cup {f}
    /\ UNCHANGED <<items, logs, settings, processedFiles,
                   run, images, drafts,
                   now, bulk, env, call>>

\* a file is deleted from one of the two folders by hand; the watcher
\* listens to "add" and "error" only, so nothing in the server reacts
unlink(dir, f) ==
    /\ existsSync(join(dir, f))
    /\ fs' = fs \ {join(dir, f)}
    /\ UNCHANGED <<items, logs, settings, processedFiles, events, run,
                   images, drafts, now, bulk, env, call>>

\* the file-system watch mechanism reports an error
EmitError ==
    /\ ErrorEvent \notin events
    /\ events' = events \cup {ErrorEvent}
    /\ UNCHANGED <<items, logs, settings, processedFiles, fs, run, images,
                   drafts, now, bulk, env, call>>

\* watcher.on("error"): console.error, nothing else
WatcherError ==
    /\ ErrorEvent \in events
    /\ events' = events \ {ErrorEvent}
    /\ UNCHANGED <<items, logs, settings, processedFiles, fs, run, images,
                   drafts, now, bulk, env, call>>

\* watcher.on("add") finds nothing to do
WatcherSkip(f) ==
    /\ f \in events
    /\ \/ toLowerCase(extname(f)) \notin VALID_EXTENSIONS
       \/ f \in processedFiles
       \/ getSetting("auto_process") # "true"
    /\ events' = events \ {f}
    /\ UNCHANGED <<items, logs, settings, processedFiles,
                   fs, run, images, drafts,
                   now, bulk, env, call>>

\* a handler that does not consult processedFiles
WatcherAdd_NoDedupCheck(f, readOk) ==
    /\ f \in events
    /\ toLowerCase(extname(f)) \in VALID_EXTENSIONS
    /\ getSetting("auto_process") = "true"
    /\ events' = events \ {f}
    /\ processImage(join(uploadsDir, f), processedDir, "watcher", 0, items,
                    fs, readOk)
    /\ UNCHANGED <<settings, fs, images, drafts, now, bulk, env, call>>

\* a handler that does not read the auto_process setting
WatcherAdd_IgnoresFlag(f, readOk) ==
    /\ f \in events
    /\ toLowerCase(extname(f)) \in VALID_EXTENSIONS
    /\ f \notin processedFiles
    /\ events' = events \ {f}
    /\ processImage(join(uploadsDir, f), processedDir, "watcher", 0, items,
                    fs, readOk)
    /\ UNCHANGED <<settings, fs, images, drafts, now, bulk, env, call>>

\* watcher.on("add") hands the file to processImage
WatcherAdd(f, readOk) ==
    /\ f \in events
    /\ toLowerCase(extname(f)) \in VALID_EXTENSIONS
    /\ f \notin processedFiles
    /\ getSetting("auto_process") = "true"
    /\ events' = events \ {f}
    /\ processImage(join(uploadsDir, f), processedDir, "watcher", 0, items,
                    fs, readOk)
    /\ UNCHANGED <<settings, fs, images, drafts, now, bulk, env, call>>

\* ---- HTTP routes ----------------------------------------------------------
\* POST /upload: multer stores the file under a fresh name in uploadsDir
\* (the watched directory), then the handler calls processImage.  The
\* watcher's awaitWriteFinish holds the add event back until the file has
\* been stable for 2000 ms, so the event is handled after this step.
Upload(f, readOk) ==
    /\ ~existsSync(join(uploadsDir, f))
    /\ ~existsSync(join(processedDir, f))
    /\ \A i \in 1..Len(items) : items[i].filename # f
    /\ fs' = fs \cup {join(uploadsDir, f)}
    /\ events' = events \cup {f}
    /\ processImage(join(uploadsDir, f), processedDir, "upload", 0, items,
                    fs', readOk)
    /\ UNCHANGED <<settings, images, drafts, now, bulk, env, call>>

\* POST /analyze: multer stores the image under a fresh name in uploadsDir
\* (the watched directory); the handler reads it, awaits analyzeImage and
\* answers with the analysis; the file stays where multer put it
AnalyzeOnly(f) ==
    /\ ~existsSync(join(uploadsDir, f))
    /\ ~existsSync(join(processedDir, f))
    /\ \A i \in 1..Len(items) : items[i].filename # f
    /\ fs' = fs \cup {join(uploadsDir, f)}
    /\ events' = events \cup {f}
    /\ UNCHANGED <<items, logs, settings, processedFiles, run, images,
                   drafts, now, bulk, env, call>>

\* file.originalname of a stored bulk file
originalname(f) ==
    CASE f = "1-g.png" -> "g.png"
      [] f = "2-h.jpg" -> "h.jpg"
      [] OTHER -> f

\* the requests a client can send to /upload-bulk: the stored files, in the
\* order of their parts
BulkRequests ==
    {<<>>} \cup {<<f>> : f \in BulkNames}
           \cup {p \in BulkNames \X BulkNames : p[1] # p[2]}

\* POST /upload-bulk without a file: 400
UploadBulkEmpty ==
    /\ bulk.pc # "loop"
    /\ bulk' = [NoBulk EXCEPT !.pc = "sent", !.status = 400]
    /\ UNCHANGED <<items, logs, settings, processedFiles, fs, events, run,
                   images, drafts, now, env, call>>

\* POST /upload-bulk: multer stores every file in uploadsDir, then the
\* handler enters its loop and calls processImage for the first file
UploadBulk(files, readOk) ==
    /\ bulk.pc # "loop"
    /\ Len(files) > 0
    /\ Len(items) + Len(files) <= MaxItems
    /\ \A k \in 1..Len(files) :
          /\ ~existsSync(join(uploadsDir, files[k]))
          /\ ~existsSync(join(processedDir, files[k]))
          /\ \A i \in 1..Len(items) : items[i].filename # files[k]
    /\ fs' = fs \cup {join(uploadsDir, files[k]) : k \in 1..Len(files)}
    /\ events' = events \cup {files[k] : k \in 1..Len(files)}
    /\ processImage(join(uploadsDir, files[1]), processedDir, "bulk", 0,
                    items, fs', readOk)
    /\ bulk' = [pc |-> "loop", files |-> files, results |-> <<>>,
                run |-> Len(items) + 1, status |-> 0]
    /\ UNCHANGED <<settings, images, drafts, now, env, call>>

\* the result the loop pushes for the run it awaited
BulkResult ==
    [filename |-> originalname(bulk.files[Len(bulk.results) + 1]),
     success |-> run[bulk.run].ret.success,
     productId |-> bulk.run,
     error |-> run[bulk.run].ret.error]

\* the awaited processImage returned: the loop pushes its result and calls
\* processImage for the next file, or sends the response after the last one
BulkNext(readOk) ==
    /\ bulk.pc = "loop"
    /\ run[bulk.run].pc = "done"
    /\ IF Len(bulk.results) + 1 < Len(bulk.files)
       THEN /\ processImage(join(uploadsDir,
                                 bulk.files[Len(bulk.results) + 2]),
                            processedDir, "bulk", 0, items, fs, readOk)
            /\ bulk' = [bulk EXCEPT !.results = Append(@, BulkResult),
                                    !.run = Len(items) + 1]
            /\ UNCHANGED <<settings, fs, events, images, drafts, now, env, call>>
       ELSE /\ bulk' = [bulk EXCEPT !.results = Append(@, BulkResult),
                                    !.pc = "sent", !.status = 200]
            /\ UNCHANGED <<items, logs, settings, processedFiles, fs,
                           events, run, images, drafts, now, env, call>>

\* the file the retry route picks for a product
RetryPath(fileName) ==
    IF existsSync(join(uploadsDir, fileName))
    THEN join(uploadsDir, fileName)
    ELSE join(processedDir, fileName)

\* POST /products/:id/retry answers 404: no such product, or no file
RetryNotFound(id) ==
    /\ \/ id \notin 1..Len(items)
       \/ /\ id \in 1..Len(items)
          /\ ~existsSync(RetryPath(items[id].filename))
    /\ UNCHANGED <<items, logs, settings, processedFiles,
                   fs, events, run, images, drafts,
                   now, bulk, env, call>>

\* a retry route that does not look for the file
Retry_NoFileCheck(id, readOk) ==
    /\ id \in 1..Len(items)
    /\ processImage(RetryPath(items[id].filename), processedDir, "retry", id,
                    [items EXCEPT ![id].status = "pending"], fs, readOk)
    /\ UNCHANGED <<settings, fs, events, images, drafts, now, bulk, env, call>>

\* a retry route that leaves a claimed filename alone
Retry_SkipsClaimed(id, readOk) ==
    /\ id \in 1..Len(items)
    /\ items[id].filename \notin processedFiles
    /\ existsSync(RetryPath(items[id].filename))
    /\ processImage(RetryPath(items[id].filename), processedDir, "retry", id,
                    [items EXCEPT ![id].status = "pending"], fs, readOk)
    /\ UNCHANGED <<settings, fs, events, images, drafts, now, bulk, env, call>>

\* POST /products/:id/retry: UPDATE status='pending', then processImage
Retry(id, readOk) ==
    /\ id \in 1..Len(items)
    /\ existsSync(RetryPath(items[id].filename))
    /\ processImage(RetryPath(items[id].filename), processedDir, "retry", id,
                    [items EXCEPT ![id].status = "pending"], fs, readOk)
    /\ UNCHANGED <<settings, fs, events, images, drafts, now, bulk, env, call>>

\* a settings route that has the watcher scan the directory again
SetSetting_Rescans(v) ==
    /\ settings' = [settings EXCEPT !["auto_process"] = v]
    /\ events' = {f \in Filenames : existsSync(join(uploadsDir, f))}
    /\ UNCHANGED <<items, logs, processedFiles, fs, run, images, drafts, now, bulk, env, call>>

\* setSetting(key, value), called by PUT /settings for each key of its body
setSetting(key, value) ==
    /\ settings' = upsert(settings, key, value)
    /\ UNCHANGED <<items, logs, processedFiles, fs, events, run, images,
                   drafts, now, bulk, env, call>>

\* a call of createProductDraft for an uploaded image
CallCreateProductDraft(imageId, content, catalog) ==
    /\ call' = [fn |-> "createProductDraft", imageId |-> imageId,
                content |-> content, catalog |-> catalog,
                variant_ids |-> getSetting("variant_ids"),
                result |-> createProductDraft(imageId, content, catalog,
                                              settings, env)]
    /\ UNCHANGED <<items, logs, settings, processedFiles, fs, events, run,
                   images, drafts, now, bulk, env>>

\* PUT /settings with {auto_process: v}
SetSetting(v) ==
    /\ settings' = [settings EXCEPT !["auto_process"] = v]
    /\ UNCHANGED <<items, logs, processedFiles, fs, events,
                   run, images, drafts,
                   now, bulk, env, call>>

\* ---- processImage, after each await -------------------------------------------
\* analyzeImage resolved: UPDATE the analysis columns, log, start the upload
AnalyzeOk(r, a) ==
    /\ r \in 1..Len(run)
    /\ run[r].pc = "analyze"
    /\ items' = [items EXCEPT ![r].title = a, ![r].updated_at = now]
    /\ logs' = logAction(logAction(logs, r, "analysis_complete", "success",
                                   "Generated title"),
                         r, "uploading", "info", "Uploading image to Printify")
    /\ run' = [run EXCEPT ![r].analysis = a, ![r].pc = "upload",
                          ![r].calls = @ \cup {"upload"}]
    /\ UNCHANGED <<settings, processedFiles, fs, events,
                   images, drafts,
                   now, bulk, env, call>>

\* the analyzer's failure is recorded but the run goes on to the upload
AnalyzeFail_FallsThrough(r, m) ==
    /\ r \in 1..Len(run)
    /\ run[r].pc = "analyze"
    /\ items' = CatchItems(items, r, m)
    /\ logs' = CatchLogs(logs, r, m)
    /\ run' = [run EXCEPT ![r].failed = "analyze", ![r].pc = "upload",
                          ![r].calls = @ \cup {"upload"}]
    /\ UNCHANGED <<settings, processedFiles, fs, events,
                   images, drafts,
                   now, bulk, env, call>>

\* analyzeImage rejected with message m
AnalyzeFail(r, m) ==
    /\ r \in 1..Len(run)
    /\ run[r].pc = "analyze"
    /\ items' = CatchItems(items, r, m)
    /\ logs' = CatchLogs(logs, r, m)
    /\ run' = CatchRun(run, r, "analyze", m)
    /\ UNCHANGED <<settings, processedFiles, fs, events,
                   images, drafts,
                   now, bulk, env, call>>

\* an upload that succeeds without an API key
UploadOk_NoKeyCheck(r) ==
    /\ r \in 1..Len(run)
    /\ run[r].pc = "upload"
    /\ images' = images \cup {r}
    /\ items' = [items EXCEPT ![r].printify_image_id = r,
                              ![r].updated_at = now]
    /\ logs' = logAction(logAction(logs, r, "upload_complete", "success",
                                   "Image ID"),
                         r, "creating_draft", "info",
                         "Creating Printify product draft")
    /\ run' = [run EXCEPT ![r].uploadedImage = r, ![r].pc = "draft",
                          ![r].calls = @ \cup {"draft"}]
    /\ UNCHANGED <<settings, processedFiles, fs, events, drafts, now, bulk,
                   env, call>>

\* the analyzer service answers the analyzeImage call in flight
GeminiReply(reply) ==
    /\ \E r \in 1..Len(run) : run[r].pc = "analyze"
    /\ call' = [fn |-> "analyzeImage", reply |-> reply,
                result |-> analyzeImage(reply)]
    /\ UNCHANGED <<items, logs, settings, processedFiles, fs, events, run,
                   images, drafts, now, bulk, env>>

\* processImage continues with what analyzeImage returned or threw
AnalyzeSettle(r) ==
    /\ call.fn = "analyzeImage"
    /\ IF call.result.ok
       THEN AnalyzeOk(r, call.result.value.title.text)
       ELSE AnalyzeFail(r, call.result.error)

\* uploadImageToPrintify resolved with a new image handle; apiRequest
\* throws before its fetch when PRINTIFY_API_KEY is not set
UploadOk(r) ==
    /\ r \in 1..Len(run)
    /\ run[r].pc = "upload"
    /\ env.PRINTIFY_API_KEY
    /\ images' = images \cup {r}
    /\ items' = [items EXCEPT ![r].printify_image_id = r,
                              ![r].updated_at = now]
    /\ logs' = logAction(logAction(logs, r, "upload_complete", "success",
                                   "Image ID"),
                         r, "creating_draft", "info",
                         "Creating Printify product draft")
    /\ run' = [run EXCEPT ![r].uploadedImage = r, ![r].pc = "draft",
                          ![r].calls = @ \cup {"draft"}]
    /\ UNCHANGED <<settings, processedFiles, fs, events,
                   drafts,
                   now, bulk, env, call>>

\* the upload's failure is recorded but the run goes on to create the draft
UploadFail_FallsThrough(r, m) ==
    /\ r \in 1..Len(run)
    /\ run[r].pc = "upload"
    /\ items' = CatchItems(items, r, m)
    /\ logs' = CatchLogs(logs, r, m)
    /\ run' = [run EXCEPT ![r].failed = "upload", ![r].pc = "draft",
                          ![r].calls = @ \cup {"draft"}]
    /\ UNCHANGED <<settings, processedFiles, fs, events,
                   images, drafts,
                   now, bulk, env, call>>

\* uploadImageToPrintify rejected with message m
UploadFail(r, m) ==
    /\ r \in 1..Len(run)
    /\ run[r].pc = "upload"
    /\ m = PRINTIFY_API_KEY_Error <=> ~env.PRINTIFY_API_KEY
    /\ items' = CatchItems(items, r, m)
    /\ logs' = CatchLogs(logs, r, m)
    /\ run' = CatchRun(run, r, "upload", m)
    /\ UNCHANGED <<settings, processedFiles, fs, events,
                   images, drafts,
                   now, bulk, env, call>>

\* fs.renameSync(src, dst) succeeds
RenameOk(src, moveOk) == existsSync(src) /\ moveOk

\* a copy in place of the rename: the source stays
renameSync_Copy(files, src, dst) == files \cup {dst}

\* the disk after fs.renameSync(src, dst)
renameSync(files, src, dst) == (files \ {src}) \cup {dst}

\* createProductDraft resolved: the catalog holds a new draft.  UPDATE
\* printify_product_id and status='completed', log, then renameSync into the
\* processed folder; renameSync throwing lands in the catch block.
DraftOk(r, moveOk) ==
    LET productHandle == r
        its1 == [items EXCEPT ![r].printify_product_id = productHandle,
                              ![r].status = "completed",
                              ![r].updated_at = now]
        lg1 == logAction(logs, r, "draft_created", "success", "Product ID")
        rn1 == [run EXCEPT ![r].product = productHandle]
        destPath == join(run[r].processedDir, run[r].fileName)
    IN  /\ r \in 1..Len(run)
        /\ run[r].pc = "draft"
        /\ env.PRINTIFY_SHOP_ID /\ env.PRINTIFY_API_KEY
        /\ drafts' = drafts \cup {[id |-> productHandle,
                                     image |-> run[r].uploadedImage,
                                     title |-> run[r].analysis,
                                     fileName |-> run[r].fileName,
                                     origin |-> run[r].origin]}
        /\ IF RenameOk(run[r].filePath, moveOk)
           THEN /\ fs' = renameSync(fs, run[r].filePath, destPath)
                /\ items' = its1
                /\ logs' = lg1
                /\ run' = [rn1 EXCEPT ![r].pc = "done", ![r].moved = TRUE,
                                      ![r].ret = [success |-> TRUE,
                                                  error |-> Null]]
           ELSE /\ fs' = fs
                /\ items' = CatchItems(its1, r, RenameError)
                /\ logs' = CatchLogs(lg1, r, RenameError)
                /\ run' = CatchRun(rn1, r, "move", RenameError)
        /\ UNCHANGED <<settings, processedFiles, events,
                       images,
                   now, bulk, env, call>>

\* a catch block that releases the filename for another attempt
DraftFail_Evicts(r, m) ==
    /\ r \in 1..Len(run)
    /\ run[r].pc = "draft"
    /\ items' = CatchItems(items, r, m)
    /\ logs' = CatchLogs(logs, r, m)
    /\ run' = CatchRun(run, r, "draft", m)
    /\ processedFiles' = processedFiles \ {run[r].fileName}
    /\ UNCHANGED <<settings, fs, events, images, drafts, now, bulk, env, call>>

\* createProductDraft rejected with message m
DraftFail(r, m) ==
    /\ r \in 1..Len(run)
    /\ run[r].pc = "draft"
    /\ m = PRINTIFY_SHOP_ID_Error <=> ~env.PRINTIFY_SHOP_ID
    /\ items' = CatchItems(items, r, m)
    /\ logs' = CatchLogs(logs, r, m)
    /\ run' = CatchRun(run, r, "draft", m)
    /\ UNCHANGED <<settings, processedFiles, fs, events,
                   images, drafts,
                   now, bulk, env, call>>

\* a second passes on the database clock
Tick ==
    /\ now < MaxClock
    /\ now' = now + 1
    /\ UNCHANGED <<items, logs, settings, processedFiles, fs, events, run,
                   images, drafts, bulk, env, call>>

\* ---- process lifetime -----------------------------------------------------------
\* a seed query without the WHERE clause
SeedFilenames_AllRows == {items[i].filename : i \in 1..Len(items)}

\* a seed query that selects the completed rows only
SeedFilenames_CompletedOnly ==
    {items[i].filename : i \in {j \in 1..Len(items) :
                                  items[j].status = "completed"}}

\* SELECT filename FROM products WHERE status IN ('completed','processing')
SeedFilenames ==
    {items[i].filename : i \in {j \in 1..Len(items) :
                                  items[j].status \in {"completed",
                                                       "processing"}}}

\* a start whose watcher skips the files already in the directory
\* (ignoreInitial: true)
startFolderWatcher_IgnoreInitial ==
    /\ processedFiles' = SeedFilenames
    /\ events' = {}
    /\ run' = [r \in 1..Len(run) |->
                 IF run[r].pc = "done"
                 THEN [run[r] EXCEPT !.current = FALSE]
                 ELSE [run[r] EXCEPT !.pc = "dead", !.current = FALSE]]
    /\ bulk' = NoBulk
    /\ settings' = initDatabase(settings)
    /\ UNCHANGED <<items, logs, fs, images, drafts, now, env, call>>

\* a start that does not seed processedFiles
startFolderWatcher_NoSeed ==
    /\ processedFiles' = {}
    /\ events' = {f \in Filenames :
                     existsSync(join(uploadsDir, f)) /\ ~ignored(f)}
    /\ run' = [r \in 1..Len(run) |->
                 IF run[r].pc = "done"
                 THEN [run[r] EXCEPT !.current = FALSE]
                 ELSE [run[r] EXCEPT !.pc = "dead", !.current = FALSE]]
    /\ bulk' = NoBulk
    /\ settings' = initDatabase(settings)
    /\ UNCHANGED <<items, logs, fs, images, drafts, now, env, call>>

\* the process terminates and is started again: the module state and the
\* calls in flight are lost, the database, the disk and the catalog stay;
\* startFolderWatcher seeds processedFiles and watches with
\* ignoreInitial:false, so chokidar emits add for every file in the directory
startFolderWatcher ==
    /\ processedFiles' = SeedFilenames
    /\ events' = {f \in Filenames :
                     existsSync(join(uploadsDir, f)) /\ ~ignored(f)}
    /\ run' = [r \in 1..Len(run) |->
                 IF run[r].pc = "done"
                 THEN [run[r] EXCEPT !.current = FALSE]
                 ELSE [run[r] EXCEPT !.pc = "dead", !.current = FALSE]]
    /\ bulk' = NoBulk
    /\ settings' = initDatabase(settings)
    /\ UNCHANGED <<items, logs, fs, images, drafts, now, env, call>>

\* ---- specification ----------------------------------------------------------------
\* the server just started on an empty database and empty directories
\* process.env with both catalog credentials set
Configured == [PRINTIFY_API_KEY |-> TRUE, PRINTIFY_SHOP_ID |-> TRUE]

\* no rows, empty directories, no call in flight, the settings table stored
\* and the environment environment
InitRaw(stored, environment) ==
    /\ items = <<>>
    /\ logs = <<>>
    /\ settings = stored
    /\ processedFiles = {}
    /\ fs = {}
    /\ events = {}
    /\ run = <<>>
    /\ images = {}
    /\ drafts = {}
    /\ now = 0
    /\ bulk = NoBulk
    /\ env = environment
    /\ call = NoCall

\* the server started on the settings table stored: initDatabase has run
InitWith(stored, environment) == InitRaw(initDatabase(stored), environment)

Init == InitWith(<<>>, Configured)

Next ==
    \/ \E f \in DropNames : DropFile(f)
    \/ \E f \in Filenames : WatcherSkip(f)
    \/ \E f \in Filenames, readOk \in BOOLEAN : WatcherAdd(f, readOk)
    \/ \E f \in UploadNames : Upload(f, TRUE)
    \/ \E id \in 1..MaxItems : RetryNotFound(id)
    \/ \E id \in 1..MaxItems, readOk \in BOOLEAN : Retry(id, readOk)
    \/ \E v \in {"true", "false"} : SetSetting(v)
    \/ \E r \in 1..MaxItems, a \in Analyses : AnalyzeOk(r, a)
    \/ \E r \in 1..MaxItems, m \in AnalyzerErrors : AnalyzeFail(r, m)
    \/ \E r \in 1..MaxItems : UploadOk(r)
    \/ \E r \in 1..MaxItems, m \in UploadErrors : UploadFail(r, m)
    \/ \E r \in 1..MaxItems, moveOk \in BOOLEAN : DraftOk(r, moveOk)
    \/ \E r \in 1..MaxItems, m \in DraftErrors : DraftFail(r, m)
    \/ startFolderWatcher

Spec == Init /\ [][Next]_vars

\* the steps of the processImage calls in flight
RunSteps ==
    \/ \E r \in 1..MaxItems, a \in Analyses : AnalyzeOk(r, a)
    \/ \E r \in 1..MaxItems, m \in AnalyzerErrors : AnalyzeFail(r, m)
    \/ \E r \in 1..MaxItems : UploadOk(r)
    \/ \E r \in 1..MaxItems, m \in UploadErrors : UploadFail(r, m)
    \/ \E r \in 1..MaxItems, moveOk \in BOOLEAN : DraftOk(r, moveOk)
    \/ \E r \in 1..MaxItems, m \in DraftErrors : DraftFail(r, m)

\* the watcher among files of every kind, within one process lifetime
NextWatcher ==
    \/ \E f \in DropNames \cup OtherNames : DropFile(f)
    \/ \E f \in Filenames : WatcherSkip(f)
    \/ \E f \in Filenames, readOk \in BOOLEAN : WatcherAdd(f, readOk)
    \/ \E v \in {"true", "false"} : SetSetting(v)
    \/ RunSteps

SpecWatcher == Init /\ [][NextWatcher]_vars

\* the watcher, the /analyze route and the errors of the watch mechanism
NextAnalyze ==
    \/ \E f \in DropNames : DropFile(f)
    \/ \E f \in AnalyzeNames : AnalyzeOnly(f)
    \/ \E f \in Filenames : WatcherSkip(f)
    \/ \E f \in Filenames, readOk \in BOOLEAN : WatcherAdd(f, readOk)
    \/ EmitError
    \/ WatcherError
    \/ \E v \in {"true", "false"} : SetSetting(v)
    \/ RunSteps

SpecAnalyze == Init /\ [][NextAnalyze]_vars

\* one process lifetime with auto_process left at "true": the process does
\* not end
NextLive ==
    \/ \E f \in DropNames : DropFile(f)
    \/ \E f \in Filenames : WatcherSkip(f)
    \/ \E f \in Filenames, readOk \in BOOLEAN : WatcherAdd(f, readOk)
    \/ \E f \in UploadNames : Upload(f, TRUE)
    \/ \E id \in 1..MaxItems : RetryNotFound(id)
    \/ \E id \in 1..MaxItems, readOk \in BOOLEAN : Retry(id, readOk)
    \/ RunSteps

\* the promise run r awaits is settled
Settle(r) ==
    \/ \E a \in Analyses : AnalyzeOk(r, a)
    \/ \E m \in AnalyzerErrors : AnalyzeFail(r, m)
    \/ UploadOk(r)
    \/ \E m \in UploadErrors : UploadFail(r, m)
    \/ \E moveOk \in BOOLEAN : DraftOk(r, moveOk)
    \/ \E m \in DraftErrors : DraftFail(r, m)

\* every collaborator call eventually resolves or rejects
SpecLive ==
    Init /\ [][NextLive]_vars /\ \A r \in 1..MaxItems : WF_vars(Settle(r))

\* the whole system with the database clock advancing
NextTime == Next \/ Tick

SpecTime == Init /\ [][NextTime]_vars

\* uploads and retries while files are deleted from the two folders
NextRetry ==
    \/ \E f \in UploadNames : Upload(f, TRUE)
    \/ \E f \in Filenames : WatcherSkip(f)
    \/ \E dir \in {uploadsDir, processedDir}, f \in UploadNames :
          unlink(dir, f)
    \/ \E id \in 1..MaxItems : RetryNotFound(id)
    \/ \E id \in 1..MaxItems, readOk \in BOOLEAN : Retry(id, readOk)
    \/ RunSteps

SpecRetry == Init /\ [][NextRetry]_vars

\* bulk uploads: the loop of the handler, the runs it awaits and the
\* watcher's events for the stored files
NextBulk ==
    \/ UploadBulkEmpty
    \/ \E files \in BulkRequests, readOk \in BOOLEAN :
          UploadBulk(files, readOk)
    \/ \E readOk \in BOOLEAN : BulkNext(readOk)
    \/ \E f \in BulkNames : WatcherSkip(f)
    \/ \E f \in BulkNames, readOk \in BOOLEAN : WatcherAdd(f, readOk)
    \/ RunSteps

SpecBulk == Init /\ [][NextBulk]_vars

\* createProductDraft under every variant selection and price
NextPayload ==
    \/ \E v \in VariantSettings : setSetting("variant_ids", v)
    \/ \E v \in PriceSettings : setSetting("default_price", v)
    \/ \E imageId \in 1..MaxItems, content \in Contents,
          catalog \in CatalogVariants :
          CallCreateProductDraft(imageId, content, catalog)

SpecPayload == Init /\ [][NextPayload]_vars

\* the watcher on a server started with any of the catalog credentials
\* missing
InitCreds ==
    \E environment \in [PRINTIFY_API_KEY : BOOLEAN,
                         PRINTIFY_SHOP_ID : BOOLEAN] :
        InitWith(<<>>, environment)

NextCreds ==
    \/ \E f \in DropNames \cup {"d.PNG"} : DropFile(f)
    \/ \E f \in Filenames : WatcherSkip(f)
    \/ \E f \in Filenames, readOk \in BOOLEAN : WatcherAdd(f, readOk)
    \/ \E v \in {"true", "false"} : SetSetting(v)
    \/ RunSteps

SpecCreds == InitCreds /\ [][NextCreds]_vars

\* runs whose analysis is settled by what analyzeImage makes of the
\* analyzer's reply
NextReply ==
    \/ \E f \in DropNames : DropFile(f)
    \/ \E f \in Filenames : WatcherSkip(f)
    \/ \E f \in Filenames, readOk \in BOOLEAN : WatcherAdd(f, readOk)
    \/ \E f \in UploadNames : Upload(f, TRUE)
    \/ \E reply \in Replies : GeminiReply(reply)
    \/ \E r \in 1..MaxItems : AnalyzeSettle(r)

SpecReply == Init /\ [][NextReply]_vars

\* keys and texts of settings rows; theme_color is a key without a default
SettingKeys == {"auto_process", "variant_ids", "theme_color"}
SettingValues == {"false", "[12345]"}

\* the settings table of a database file as the process finds it before
\* initDatabase: any of the keys, each with any text
StoredSettings ==
    UNION {[present -> SettingValues] : present \in SUBSET SettingKeys}

InitSettings == \E stored \in StoredSettings : InitRaw(stored, Configured)

\* initDatabase has run on the settings table
Initialized == DOMAIN defaultSettings \subseteq DOMAIN settings

\* the process starts (initDatabase, then the watcher) on the database it
\* finds; once it runs, settings are written, images are uploaded and the
\* process is restarted
NextSettings ==
    \/ startFolderWatcher
    \/ /\ Initialized
       /\ \/ \E k \in SettingKeys, v \in SettingValues : setSetting(k, v)
          \/ \E f \in UploadNames : Upload(f, TRUE)
          \/ RunSteps

SpecSettings == InitSettings /\ [][NextSettings]_vars

\* ---- properties ------------------------------------------------------------------
Runs == 1..MaxItems

\* the processImage call of run r returns in this step
Returns(r) ==
    /\ r \in 1..Len(run')
    /\ run'[r].pc = "done"
    /\ (r > Len(run) \/ run[r].pc # "done")

\* the rows of logs with product_id r and status 'error'
ErrorLogs(lg, r) == SelectSeq(lg[r], LAMBDA row : row.status = "error")

\* number of drafts the catalog created for source file f
DraftsFor(f) == Cardinality({d \in drafts : d.fileName = f})

C2_MoveFailureKeepsCompleted ==
    [][\A r \in Runs :
         (Returns(r) /\ run'[r].product # NoHandle /\ ~run'[r].moved) =>
            /\ items'[r].status = "completed"
            /\ items'[r].printify_product_id = run'[r].product
            /\ items'[r].error_message = Null]_vars

\* C3: as long as every run was started by the watcher (no upload, no
\* retry), the catalog holds at most one draft per source filename.
C3_WatcherNeverDuplicatesDraft ==
    (\A r \in 1..Len(run) : run[r].origin = "watcher") =>
        \A f \in Filenames : DraftsFor(f) <= 1

\* C4: a retry request adds no row to products (the only step of a run that
\* inserts is its first, taken inside the request).
C4_RetryCreatesNoRow ==
    [][\A id \in Runs, readOk \in BOOLEAN :
         Retry(id, readOk) => Len(items') = Len(items)]_vars

\* C5: when the run of a retry of product X returns success, row X holds that
\* run's analysis, image handle and product handle.
C5_RetryOverwritesRow ==
    [][\A r \in Runs :
         (Returns(r) /\ run'[r].origin = "retry" /\ run'[r].ret.success) =>
            /\ items'[run'[r].retryOf].title = run'[r].analysis
            /\ items'[run'[r].retryOf].printify_image_id
                  = run'[r].uploadedImage
            /\ items'[run'[r].retryOf].printify_product_id
                  = run'[r].product]_vars

\* C6: the retry request leaves product X in processing (pending, then
\* processing again), and when the retry's run returns X is completed or
\* error.
C6_RetriedItemLeavesPending ==
    [][/\ \A id \in Runs, readOk \in BOOLEAN :
            (Retry(id, readOk) /\ ~Returns(Len(items')))
               => items'[id].status = "processing"
       /\ \A r \in Runs :
            (Returns(r) /\ run'[r].origin = "retry") =>
               items'[run'[r].retryOf].status \in {"completed", "error"}]_vars

\* C7: a row has an error_message only while its status is error.
C7_ErrorMessageOnlyInError ==
    \A i \in 1..Len(items) :
        items[i].error_message # Null => items[i].status = "error"

\* C8: a run that failed at the file read or at the analyzer never called
\* the catalog's upload or draft creation.
C8_AnalyzerFailureShortCircuits ==
    \A r \in 1..Len(run) :
        run[r].failed \in {"read", "analyze"} =>
            run[r].calls \cap {"upload", "draft"} = {}

C8_Witness ==
    \E r \in 1..Len(run) :
        /\ run[r].pc = "done"
        /\ run[r].failed = "analyze"
        /\ run[r].calls = {"analyze"}

\* C9: a run whose upload failed never called draft creation, and a run that
\* called draft creation had both its analysis and its upload succeed.
C9_DraftOnlyAfterAnalysisAndUpload ==
    \A r \in 1..Len(run) :
        /\ run[r].failed = "upload" => "draft" \notin run[r].calls
        /\ "draft" \in run[r].calls =>
              /\ {"analyze", "upload"} \subseteq run[r].calls
              /\ run[r].analysis # Null
              /\ run[r].uploadedImage # NoHandle
              /\ items[r].title = run[r].analysis
              /\ items[r].printify_image_id = run[r].uploadedImage

C9_Witness ==
    /\ \E r \in 1..Len(run) :
          run[r].pc = "done" /\ run[r].failed = "upload"
    /\ \E r \in 1..Len(run) : "draft" \in run[r].calls

\* C10: when the analyzer fails with message m, the run ends with its row in
\* status error with error_message m, exactly one error row in logs for it
\* (action error, message m), the return value {success:false, error:m}, and
\* the run has not moved the file: the step leaves the disk as it is, and the
\* file is still at the submitted path whenever no other run worked on a file
\* of that name.
C10_AnalyzerFailureRecorded ==
    [][\A r \in Runs, m \in AnalyzerErrors :
         AnalyzeFail(r, m) =>
            /\ Returns(r)
            /\ items'[r].status = "error"
            /\ items'[r].error_message = m
            /\ Len(ErrorLogs(logs', r)) = 1
            /\ ErrorLogs(logs', r)[1] = LogRow(r, "error", "error", m)
            /\ run'[r].ret = [success |-> FALSE, error |-> m]
            /\ ~run'[r].moved
            /\ fs' = fs
            /\ (\A q \in 1..Len(run) :
                   q # r => run[q].fileName # run[r].fileName)
                 => run[r].filePath \in fs']_vars

C10_Witness ==
    \E r \in 1..Len(run) :
        /\ run[r].pc = "done"
        /\ run[r].failed = "analyze"
        /\ run[r].ret.error = "No response from Gemini"
        /\ items[r].status = "error"
        /\ run[r].filePath \in fs

\* ---- the dedup registry and the watcher ------------------------------------------
\* run r starts in this step
Started(r) == r > Len(run) /\ r \in 1..Len(run')

\* run r is awaiting a collaborator
InFlight(rn, r) == rn[r].pc \in {"analyze", "upload", "draft"}

\* the watcher's add handler runs for f in this step
HandlesEvent(f) ==
    /\ f \in events
    /\ f \notin events'
    /\ WatcherSkip(f) \/ \E readOk \in BOOLEAN : WatcherAdd(f, readOk)

\* the runs of the running process for file f / those the watcher started
CurrentRuns(rn, f) ==
    {r \in 1..Len(rn) : rn[r].current /\ rn[r].fileName = f}

WatcherRuns(rn, f) ==
    {r \in CurrentRuns(rn, f) : rn[r].origin = "watcher"}

\* C11: within one process lifetime the watcher starts at most one run per
\* filename, whatever the number of add events and whatever runs are in
\* flight: an event handled with auto-process on for an unclaimed filename
\* leaves exactly one watcher run for it, and an event for a filename that
\* already has a run of this lifetime changes nothing but the event queue.
C11_OneWatcherRunPerFilename ==
    [][\A f \in Filenames :
         /\ \A q, r \in WatcherRuns(run', f) : q = r
         /\ (HandlesEvent(f) /\ getSetting("auto_process") = "true"
               /\ f \notin processedFiles)
              => Cardinality(WatcherRuns(run', f)) = 1
         /\ (HandlesEvent(f) /\ CurrentRuns(run, f) # {})
              => UNCHANGED <<items, logs, run, processedFiles, fs>>]_vars

C11_Witness ==
    \E r \in 1..Len(run) :
        /\ run[r].origin = "watcher"
        /\ InFlight(run, r)
        /\ run[r].fileName \in events
        /\ getSetting("auto_process") = "true"

\* C12: the has-check and the add of processedFiles act as one claim: an
\* event handled with auto-process on starts a run exactly when the filename
\* was not in the registry, and the filename is in the registry afterwards;
\* at startup the registry holds the filenames that have a row in status
\* processing or completed, and no others.
C12_RegistryClaim ==
    [][/\ \A f \in Filenames :
            (HandlesEvent(f) /\ getSetting("auto_process") = "true") =>
               /\ f \in processedFiles'
               /\ f \notin processedFiles <=> Len(run') = Len(run) + 1
               /\ f \in processedFiles => UNCHANGED <<items, logs, run>>
       /\ startFolderWatcher =>
            \A f \in Filenames :
               f \in processedFiles' <=>
                  \E i \in 1..Len(items) :
                     /\ items[i].filename = f
                     /\ items[i].status \in {"processing", "completed"}]_vars

C12_Witness ==
    /\ "a.png" \in processedFiles
    /\ "a.png" \notin events
    /\ existsSync(join(uploadsDir, "a.png"))
    /\ \E i \in 1..Len(items) :
          /\ items[i].filename = "a.png"
          /\ items[i].status = "processing"
          /\ ~run[i].current
    /\ \E i \in 1..Len(items) :
          items[i].filename = "a.png" /\ items[i].status = "error"

\* C13: the registry never evicts: outside a restart processedFiles only
\* grows, every filename claimed by a run of this process lifetime (watcher,
\* upload or retry) is in it, and once a run for f has ended in error a
\* watcher event for f starts no run.
C13_RegistryNeverEvicts ==
    [][/\ startFolderWatcher \/ processedFiles \subseteq processedFiles'
       /\ \A r \in 1..Len(run') :
             run'[r].current => run'[r].fileName \in processedFiles'
       /\ \A f \in Filenames :
             (/\ HandlesEvent(f)
              /\ \E r \in CurrentRuns(run, f) :
                    run[r].pc = "done" /\ ~run[r].ret.success)
               => UNCHANGED <<items, logs, run, processedFiles, fs>>]_vars

C13_Witness ==
    \E r \in 1..Len(run) :
        /\ run[r].current
        /\ run[r].pc = "done"
        /\ ~run[r].ret.success
        /\ items[r].status = "error"
        /\ existsSync(join(uploadsDir, run[r].fileName))
        /\ run[r].fileName \in events
        /\ getSetting("auto_process") = "true"
        /\ Len(items) < MaxItems

\* C14: while auto_process is not "true", the add handler for an eligible
\* file inserts no product row and no log row, leaves processedFiles as it
\* is and leaves the file where it is.
C14_FlagOffLeavesFileUntouched ==
    [][\A f \in Filenames :
         (/\ HandlesEvent(f)
          /\ toLowerCase(extname(f)) \in VALID_EXTENSIONS
          /\ getSetting("auto_process") = "false")
           => UNCHANGED <<items, logs, run, processedFiles, fs>>]_vars

C14_Witness ==
    /\ getSetting("auto_process") = "false"
    /\ existsSync(join(uploadsDir, "a.png"))
    /\ "a.png" \notin events
    /\ "a.png" \notin processedFiles
    /\ \A i \in 1..Len(items) : items[i].filename # "a.png"

\* C15: changing the auto_process setting starts nothing and queues nothing:
\* a watcher run starts only by consuming an add event, and add events come
\* only from a file written into the directory or from the initial scan of
\* a restarted watcher.
C15_FlagOnDoesNotRescan ==
    [][/\ settings' # settings
            => UNCHANGED <<events, items, logs, run, processedFiles, fs>>
       /\ \A r \in 1..Len(run') :
             (Started(r) /\ run'[r].origin = "watcher")
               => run'[r].fileName \in events \ events'
       /\ \A f \in events' \ events :
             \/ DropFile(f)
             \/ startFolderWatcher
             \/ \E readOk \in BOOLEAN : Upload(f, readOk)]_vars

C15_Witness ==
    /\ getSetting("auto_process") = "true"
    /\ existsSync(join(uploadsDir, "a.png"))
    /\ "a.png" \notin events
    /\ "a.png" \notin processedFiles
    /\ \A i \in 1..Len(items) : items[i].filename # "a.png"

\* the rows of watcher-started runs for file f in status processing or
\* completed
WatcherItems(f) ==
    {i \in 1..Len(items) :
        /\ items[i].filename = f
        /\ run[i].origin = "watcher"
        /\ items[i].status \in {"processing", "completed"}}

\* C16: across watcher events, run outcomes and restarts with re-seeding, at
\* most one row created by a watcher-started run is in status processing or
\* completed for a filename.
C16_OneWatcherItemPerFilename ==
    \A f \in Filenames : Cardinality(WatcherItems(f)) <= 1

C16_Witness ==
    \E i \in 1..Len(items) :
        /\ i \in WatcherItems(items[i].filename)
        /\ ~run[i].current
        /\ existsSync(join(uploadsDir, items[i].filename))
        /\ items[i].filename \notin events
        /\ getSetting("auto_process") = "true"
        /\ Len(items) < MaxItems

\* C17: at most one run is in flight for a source file at any time, whatever
\* started the runs.
C17_OneRunInFlightPerFile ==
    \A r, q \in 1..Len(run) :
        (r # q /\ InFlight(run, r) /\ InFlight(run, q))
          => run[r].filePath # run[q].filePath

\* C18: while the run of a row is in flight and the row is in status
\* processing, only a step of that run changes the row.
C18_ItemOwnedByItsRun ==
    [][\A i \in 1..Len(items) :
         (/\ InFlight(run, i)
          /\ items[i].status = "processing"
          /\ items'[i] # items[i])
           => run'[i] # run[i]]_vars

\* the run of row i died with the process and the row is still processing
Stuck(i) == run[i].pc = "dead" /\ items[i].status = "processing"

\* C19: a restart leaves the rows as they are, so the row of a run that was
\* in flight stays in status processing; as long as it does, its filename is
\* in processedFiles after every start, no watcher event (the initial scan
\* included) starts a run for that filename, and the row leaves processing
\* only in a step of the retry route for it.
C19_StuckItemNeverAutoRetried ==
    [][/\ startFolderWatcher => items' = items
       /\ \A i \in 1..Len(items) :
             (InFlight(run, i) /\ items[i].status = "processing"
                /\ startFolderWatcher)
               => Stuck(i)' /\ items[i].filename \in processedFiles'
       /\ \A i \in 1..Len(items) :
             Stuck(i) =>
                /\ items[i].filename \in processedFiles
                /\ \A r \in 1..Len(run') :
                      (Started(r) /\ run'[r].fileName = items[i].filename)
                        => run'[r].origin = "retry"
                /\ items'[i].status # "processing"
                     => \E readOk \in BOOLEAN : Retry(i, readOk)]_vars

C19_Witness ==
    \E i \in 1..Len(items) :
        /\ Stuck(i)
        /\ existsSync(join(uploadsDir, items[i].filename))
        /\ items[i].filename \notin events
        /\ getSetting("auto_process") = "true"
        /\ Len(items) < MaxItems

\* the stage rows of product p, in insertion order
StageActions ==
    {"processing_started", "analysis_complete", "upload_complete",
     "draft_created", "error"}

IsStageRow(row) == row.action \in StageActions

StageLog(lg, p) ==
    LET rows == SelectSeq(lg[p], IsStageRow)
    IN  [k \in 1..Len(rows) |-> rows[k].action]

\* the stage logs a run can leave
StageOrders ==
    {<<"processing_started">>,
     <<"processing_started", "error">>,
     <<"processing_started", "analysis_complete">>,
     <<"processing_started", "analysis_complete", "error">>,
     <<"processing_started", "analysis_complete", "upload_complete">>,
     <<"processing_started", "analysis_complete", "upload_complete",
       "error">>,
     <<"processing_started", "analysis_complete", "upload_complete",
       "draft_created">>}

\* C20: the log rows of every product are in stage order: processing_started,
\* analysis_complete, upload_complete, each at most once and none without
\* its predecessor, closed by exactly one of draft_created or error.
C20_LogsInStageOrder ==
    \A p \in 1..Len(logs) : StageLog(logs, p) \in StageOrders

\* ---- errors ------------------------------------------------------------------------
\* the rows of logs with product_id NULL
ProcessRows(lg) ==
    {pk \in {<<p, k>> : p \in 1..Len(lg), k \in 1..4 * MaxItems} :
        pk[2] <= Len(lg[pk[1]]) /\ lg[pk[1]][pk[2]].product_id = Null}

\* C21: the handler of an error of the file-system watch mechanism appends
\* one row with product_id NULL to logs.
C21_WatcherErrorLogged ==
    [][WatcherError =>
         Cardinality(ProcessRows(logs')) =
            Cardinality(ProcessRows(logs)) + 1]_vars

\* a run of this process lifetime has returned a failure
SomeRunFailed ==
    \E q \in 1..Len(run) :
        run[q].current /\ run[q].pc = "done" /\ ~run[q].ret.success

\* C22: a run that fails in a stage (read, analyze, upload, draft) returns
\* {success:false, error} with that error stored on its row (status error,
\* error_message) and in an error row of logs; a run in flight ends by
\* returning unless the process ends; and after a failed run the add handler
\* still starts a run for an eligible unclaimed file.
C22_StageErrorRecordedAndReturned ==
    [][/\ \A r \in Runs :
            (Returns(r)
               /\ run'[r].failed \in {"read", "analyze", "upload", "draft"})
              => /\ run'[r].pc = "done"
                 /\ run'[r].ret.success = FALSE
                 /\ run'[r].ret.error # Null
                 /\ items'[r].status = "error"
                 /\ items'[r].error_message = run'[r].ret.error
                 /\ Len(ErrorLogs(logs', r)) = 1
                 /\ ErrorLogs(logs', r)[1] =
                       LogRow(r, "error", "error", run'[r].ret.error)
       /\ \A r \in Runs :
            (r \in 1..Len(run) /\ InFlight(run, r) /\ run'[r] # run[r])
              => \/ InFlight(run', r)
                 \/ Returns(r)
                 \/ startFolderWatcher
       /\ \A f \in Filenames :
            (/\ SomeRunFailed
             /\ HandlesEvent(f)
             /\ toLowerCase(extname(f)) \in VALID_EXTENSIONS
             /\ f \notin processedFiles
             /\ getSetting("auto_process") = "true")
              => /\ Len(run') = Len(run) + 1
                 /\ run'[Len(run')].fileName = f]_vars

C22_Witness ==
    \E q, r \in 1..Len(run) :
        /\ q < r
        /\ run[q].current /\ run[r].current
        /\ run[q].pc = "done"
        /\ run[q].failed = "upload"
        /\ items[q].status = "error"
        /\ run[r].origin = "watcher"
        /\ run[r].pc = "done"
        /\ run[r].failed = "read"
        /\ items[r].error_message = ReadError

\* C23: a file stored by the /analyze route gets no row in products, and no
\* catalog upload and no draft creation is made for it.
C23_AnalyzeOnlyCreatesNothing ==
    /\ \A i \in 1..Len(items) : items[i].filename \notin AnalyzeNames
    /\ \A r \in 1..Len(run) :
          run[r].fileName \in AnalyzeNames
            => run[r].calls \cap {"upload", "draft"} = {}
    /\ \A d \in drafts : d.fileName \notin AnalyzeNames

\* ---- the status of a row -------------------------------------------------------------
Statuses == {"pending", "processing", "completed", "error"}

C25_EveryRunTerminates ==
    \A r \in 1..MaxItems :
        []((r \in 1..Len(run) /\ InFlight(run, r))
             => <>(/\ r \in 1..Len(run)
                   /\ run[r].pc = "done"
                   /\ items[r].status \in {"completed", "error"}))

C25_Witness ==
    \E q, r \in 1..Len(run) :
        /\ q # r
        /\ run[q].pc = "done" /\ items[q].status = "completed"
        /\ run[r].pc = "done" /\ items[r].status = "error"
        /\ run[r].failed = "draft"

\* ---- eligibility and the auto_process flag --------------------------------------------
\* the names whose extension is png, jpg or jpeg in any letter case and that
\* do not begin with a dot
EligibleNames ==
    {"a.png", "b.jpg", "c.jpeg", "d.PNG", "1-g.png", "2-h.jpg"}

\* C26: the watcher starts a run only for an eligible name, and starts one
\* for an eligible unclaimed name of any letter case when auto_process is
\* on; an event for another name changes no table, not processedFiles and
\* not the disk, whatever the flag; a dot-prefixed file raises no event.
C26_OnlyEligibleFilesProcessed ==
    [][/\ \A r \in 1..Len(run') :
             (Started(r) /\ run'[r].origin = "watcher")
               => run'[r].fileName \in EligibleNames
       /\ \A f \in EligibleNames :
             (HandlesEvent(f) /\ f \notin processedFiles
                /\ settings["auto_process"] = "true")
               => /\ Len(run') = Len(run) + 1
                  /\ run'[Len(run')].fileName = f
       /\ \A f \in Filenames \ EligibleNames :
             /\ HandlesEvent(f)
                  => UNCHANGED <<items, logs, run, processedFiles, fs>>
             /\ f \notin processedFiles'
             /\ \A i \in 1..Len(items') : items'[i].filename # f
       /\ \A f \in Filenames :
             (DropFile(f) /\ f \in {".f.png"}) => events' = events]_vars

C26_Witness ==
    /\ existsSync(join(uploadsDir, "e.txt"))
    /\ "e.txt" \notin events
    /\ existsSync(join(uploadsDir, ".f.png"))
    /\ settings["auto_process"] = "true"
    /\ \E r \in 1..Len(run) :
          run[r].fileName = "d.PNG" /\ run[r].origin = "watcher"

\* C27: the add handler decides by the value auto_process has in the
\* settings table when the event is handled: for an eligible unclaimed file
\* it starts a run exactly when that value is "true".
C27_FlagReadAtEveryEvent ==
    [][\A f \in EligibleNames :
         (HandlesEvent(f) /\ f \notin processedFiles)
           => (Len(run') = Len(run) + 1
                 <=> settings["auto_process"] = "true")]_vars

C27_Witness ==
    /\ settings["auto_process"] = "false"
    /\ \E r \in 1..Len(run) :
          /\ run[r].current
          /\ run[r].origin = "watcher"
          /\ run[r].fileName = "a.png"
    /\ existsSync(join(uploadsDir, "d.PNG"))
    /\ "d.PNG" \notin events
    /\ "d.PNG" \notin processedFiles

\* ---- retry -----------------------------------------------------------------------------
\* C28: for every row whose file is in the watched or in the processed
\* folder the retry route can proceed and starts a run on that file,
\* whatever the row's status and whether or not the filename is in
\* processedFiles.
C28_RetryAlwaysProceeds ==
    \A id \in 1..Len(items) :
        (/\ Len(items) < MaxItems
         /\ \/ existsSync(join(uploadsDir, items[id].filename))
            \/ existsSync(join(processedDir, items[id].filename)))
          => ENABLED (/\ \E readOk \in BOOLEAN : Retry(id, readOk)
                      /\ Len(run') = Len(run) + 1
                      /\ run'[Len(run')].retryOf = id
                      /\ run'[Len(run')].fileName = items[id].filename
                      /\ run'[Len(run')].filePath \in fs)

C28_Witness ==
    \E id, r \in 1..Len(run) :
        /\ run[id].current /\ run[r].current
        /\ run[id].ret.success
        /\ items[id].printify_product_id # NoHandle
        /\ items[id].filename \in processedFiles
        /\ run[r].origin = "retry"
        /\ run[r].retryOf = id
        /\ run[r].filePath = join(processedDir, items[id].filename)
        /\ InFlight(run, r)

\* ---- writes to a row ------------------------------------------------------------------
\* C29: every change of a row sets its updated_at to the current time.
C29_UpdatedAtRefreshed ==
    [][\A i \in 1..Len(items) :
         items'[i] # items[i] => items'[i].updated_at = now]_vars

\* C30: a run writes to its own row and logs for its own row only: a row or
\* its log rows change only in a step of the run that inserted the row or,
\* for the row's status, in the retry route for that row.
C30_RunWritesOwnRowOnly ==
    [][/\ \A i \in 1..Len(items) :
            items'[i] # items[i]
              => \/ run'[i] # run[i]
                 \/ \E readOk \in BOOLEAN : Retry(i, readOk)
       /\ \A i \in 1..Len(logs) :
            logs'[i] # logs[i] => run'[i] # run[i]
       /\ \A r \in 1..Len(run) :
            (InFlight(run, r) /\ run'[r] # run[r] /\ Settle(r)) =>
               /\ \A i \in 1..Len(items) : i # r => items'[i] = items[i]
               /\ \A i \in 1..Len(logs) : i # r => logs'[i] = logs[i]
               /\ Len(items') = Len(items) /\ Len(logs') = Len(logs)]_vars

C30_Witness ==
    \E q, r \in 1..Len(run) :
        /\ q # r
        /\ run[q].fileName = run[r].fileName
        /\ run[q].pc = "analyze"
        /\ items[q].title = Null
        /\ items[q].status = "processing"
        /\ run[r].pc = "draft"
        /\ items[r].title # Null
        /\ items[r].printify_image_id = r

\* the retry route has nothing to retry for id: no such row, or the row's
\* file is in neither folder
NothingToRetry(id) ==
    IF id \in 1..Len(items)
    THEN /\ ~existsSync(join(uploadsDir, items[id].filename))
         /\ ~existsSync(join(processedDir, items[id].filename))
    ELSE TRUE

\* C31: a retry request for an id without a row, or for a row whose file is
\* in neither the watched nor the processed folder, can only take the 404
\* path, and that path changes nothing: no row is reset or inserted, no log
\* row is written, processedFiles is unchanged and no run is started.
C31_RetryNotFoundChangesNothing ==
    \A id \in Runs :
        NothingToRetry(id) =>
            /\ ENABLED RetryNotFound(id)
            /\ ~ENABLED (/\ RetryNotFound(id)
                         /\ ~UNCHANGED <<items, logs, processedFiles, fs,
                                         run, images, drafts>>)
            /\ \A readOk \in BOOLEAN : ~ENABLED Retry(id, readOk)

C31_Witness ==
    /\ Len(items) < MaxItems
    /\ \E id \in 1..Len(items) :
          /\ NothingToRetry(id)
          /\ items[id].status = "error"
          /\ items[id].filename \in processedFiles

\* ---- stored fields -----------------------------------------------------------
\* C32: in every row the product handle is set only if the image handle is
\* set, and the image handle only if the analysis is stored; the row of a
\* run that failed holds exactly what the stages before the failure
\* returned (the catch block writes status, error_message and updated_at
\* only).
C32_FieldsNestedAndKept ==
    \A i \in 1..Len(items) :
        /\ items[i].printify_product_id # NoHandle
              => items[i].printify_image_id # NoHandle
        /\ items[i].printify_image_id # NoHandle => items[i].title # Null
        /\ (run[i].pc = "done" /\ run[i].failed # "none") =>
              /\ items[i].title = run[i].analysis
              /\ items[i].printify_image_id = run[i].uploadedImage
              /\ items[i].printify_product_id = run[i].product
              /\ items[i].filename = run[i].fileName

C32_Witness ==
    \E i \in 1..Len(items) :
        /\ run[i].pc = "done"
        /\ run[i].failed = "draft"
        /\ items[i].status = "error"
        /\ items[i].error_message \in DraftErrors
        /\ items[i].title \in Analyses
        /\ items[i].printify_image_id = i
        /\ items[i].printify_product_id = NoHandle

\* ---- manual upload and the watcher ----------------------------------------------
UploadRuns(rn, f) ==
    {r \in CurrentRuns(rn, f) : rn[r].origin = "upload"}

\* C33: within a process lifetime a file stored by the upload route gets
\* the one run the upload handler started and none from the watcher: the
\* handler's processImage call put the filename into processedFiles in the
\* step that started the run, and it stays there during and after the run,
\* whatever its outcome.
C33_UploadedFileRunsOnce ==
    \A f \in Filenames :
        UploadRuns(run, f) # {} =>
            /\ Cardinality(UploadRuns(run, f)) = 1
            /\ WatcherRuns(run, f) = {}
            /\ f \in processedFiles

C33_Witness ==
    \E r \in 1..Len(run) :
        /\ run[r].current
        /\ run[r].origin = "upload"
        /\ run[r].pc = "done"
        /\ run[r].failed = "upload"
        /\ existsSync(join(uploadsDir, run[r].fileName))
        /\ run[r].fileName \notin events
        /\ getSetting("auto_process") = "true"
        /\ Len(items) < MaxItems

\* ---- restart --------------------------------------------------------------------
RowsOf(f) == {i \in 1..Len(items) : items[i].filename = f}

\* C34: a restart leaves a file that is still in the watched folder and
\* whose rows are all in status error out of processedFiles and emits an add
\* event for it, and the event, handled with auto-process on while the name
\* is still unclaimed, starts a watcher run for it; an event for a file that
\* has a row in status completed or processing starts no run.
C34_RestartRerunsErrorFilesOnly ==
    [][/\ startFolderWatcher =>
            \A f \in Filenames :
               (/\ existsSync(join(uploadsDir, f))
                /\ RowsOf(f) # {}
                /\ \A i \in RowsOf(f) : items[i].status = "error")
                 => f \notin processedFiles' /\ f \in events'
       /\ \A f \in Filenames :
            (/\ HandlesEvent(f)
             /\ RowsOf(f) # {}
             /\ CurrentRuns(run, f) = {}
             /\ f \notin processedFiles
             /\ getSetting("auto_process") = "true")
              => /\ Len(run') = Len(run) + 1
                 /\ run'[Len(run')].origin = "watcher"
                 /\ run'[Len(run')].fileName = f
       /\ \A f \in Filenames :
            (/\ HandlesEvent(f)
             /\ \E i \in RowsOf(f) :
                   items[i].status \in {"completed", "processing"})
              => UNCHANGED <<items, logs, run, processedFiles, fs>>]_vars

C34_Witness ==
    \E i, r \in 1..Len(run) :
        /\ ~run[i].current
        /\ run[i].fileName = "a.png"
        /\ \A j \in RowsOf("a.png") : j # r => items[j].status = "error"
        /\ run[r].current
        /\ run[r].origin = "watcher"
        /\ run[r].fileName = "a.png"
        /\ run[r].filePath = join(uploadsDir, "a.png")

\* ---- bulk upload ------------------------------------------------------------------
\* the files of the bulk request being served
BulkFiles(b) == {b.files[k] : k \in 1..Len(b.files)}

PayloadVariantIds(payload) ==
    [k \in 1..Len(payload.variants) |-> payload.variants[k].id]

\* C36: with an empty variant selection createProductDraft fetches the
\* catalog's variants and uses the first min(100, number available) in the
\* catalog's order; with a non-empty selection it fetches nothing and uses
\* the selection; the print area's variant ids are the ids of the payload's
\* variants.
C36_VariantSelection ==
    (call.fn = "createProductDraft" /\ call.result.ok) =>
        LET ids == PayloadVariantIds(call.result.payload)
            n == IF Len(call.catalog) < 100 THEN Len(call.catalog) ELSE 100
        IN  /\ call.variant_ids \in {"", "[]"} =>
                  /\ call.result.fetched
                  /\ Len(ids) = n
                  /\ \A k \in 1..n : ids[k] = call.catalog[k].id
            /\ call.variant_ids = "[12345]" =>
                  ~call.result.fetched /\ ids = <<12345>>
            /\ call.variant_ids = "[12346, 12345]" =>
                  ~call.result.fetched /\ ids = <<12346, 12345>>
            /\ call.result.payload.print_areas[1].variant_ids = ids

C36_Witness ==
    /\ call.fn = "createProductDraft"
    /\ call.variant_ids = ""
    /\ Len(call.catalog) = 101
    /\ Len(call.result.payload.variants) = 100
    /\ call.result.payload.variants[100].id = 89900

\* C37: the description createProductDraft sends is the analysis
\* description, an empty line and one line per bullet, each bullet prefixed
\* with the marker and a space, in the bullets' order, joined by newlines;
\* without bullets it is the description followed by one newline; title and
\* tags are sent as given.
C37_DescriptionFormat ==
    (call.fn = "createProductDraft" /\ call.result.ok) =>
        LET c == call.content
            sent == call.result.payload
        IN  /\ Len(c.bullets) = 0 => sent.description = c.description \o "\n"
            /\ Len(c.bullets) = 1 =>
                  sent.description
                     = c.description \o "\n\n* " \o c.bullets[1]
            /\ Len(c.bullets) = 2 =>
                  sent.description
                     = c.description \o "\n\n* " \o c.bullets[1]
                          \o "\n* " \o c.bullets[2]
            /\ sent.title = c.title
            /\ sent.tags = c.tags

C37_Witness ==
    /\ call.fn = "createProductDraft"
    /\ call.result.ok
    /\ call.content.bullets = <<"Soft", "Bold">>
    /\ call.result.payload.description = "A tee\n\n* Soft\n* Bold"
    /\ call.result.payload.tags = <<"tee", "sun">>

\* ---- missing credentials ----------------------------------------------------------
\* C38: on a server without the API key every run that reaches the upload
\* fails there, and on a server with the key and without the shop id every
\* run that reaches the draft creation fails there; the row ends in status
\* error with the configuration message, the catalog gets no draft, and the
\* watcher still starts a run for the next eligible file.
C38_MissingCredentialFailsTheStage ==
    /\ \A r \in 1..Len(run) :
          run[r].pc = "done" =>
             /\ (~env.PRINTIFY_API_KEY /\ "upload" \in run[r].calls) =>
                   /\ run[r].failed = "upload"
                   /\ items[r].status = "error"
                   /\ items[r].error_message = PRINTIFY_API_KEY_Error
             /\ (env.PRINTIFY_API_KEY /\ ~env.PRINTIFY_SHOP_ID
                    /\ "draft" \in run[r].calls) =>
                   /\ run[r].failed = "draft"
                   /\ items[r].status = "error"
                   /\ items[r].error_message = PRINTIFY_SHOP_ID_Error
    /\ (~env.PRINTIFY_API_KEY \/ ~env.PRINTIFY_SHOP_ID) => drafts = {}
    /\ \A r \in 1..Len(run) :
          (~env.PRINTIFY_API_KEY /\ InFlight(run, r))
             => run[r].pc \in {"analyze", "upload"}
    /\ \A f \in events :
          (/\ toLowerCase(extname(f)) \in VALID_EXTENSIONS
           /\ f \notin processedFiles
           /\ getSetting("auto_process") = "true"
           /\ Len(items) < MaxItems)
            => ENABLED WatcherAdd(f, TRUE)

C38_Witness ==
    /\ env.PRINTIFY_API_KEY
    /\ ~env.PRINTIFY_SHOP_ID
    /\ Len(run) = 2
    /\ run[1].pc = "done"
    /\ run[1].failed = "draft"
    /\ items[1].error_message = PRINTIFY_SHOP_ID_Error
    /\ run[2].fileName # run[1].fileName
    /\ run[2].pc = "draft"

\* ---- the analyzer's reply ---------------------------------------------------------
\* the reply is empty, is not parseable, or its object has not all of the
\* four fields
Lacking(reply) ==
    \/ reply.text \in {"empty", "prose", "not json"}
    \/ \E k \in {"title", "description", "bullets", "tags"} :
          k \notin DOMAIN reply.object

\* C39: what analyzeImage returns has title, description, bullets and tags;
\* on a reply that is empty, not parseable or without one of the four it
\* throws, and the run awaiting it ends in the catch block without calling
\* the catalog; a run goes on to the upload only with an analysis that has
\* the four fields.
C39_AnalysisValidated ==
    [][/\ (call'.fn = "analyzeImage" /\ call'.result.ok) =>
            {"title", "description", "bullets", "tags"}
               \subseteq DOMAIN call'.result.value
       /\ (call'.fn = "analyzeImage" /\ Lacking(call'.reply)) =>
            ~call'.result.ok
       /\ \A r \in 1..Len(run) :
            (run[r].pc = "analyze" /\ run'[r].pc # "analyze") =>
               /\ Lacking(call.reply) =>
                     /\ run'[r].pc = "done"
                     /\ run'[r].failed = "analyze"
                     /\ ~run'[r].ret.success
                     /\ items'[r].status = "error"
                     /\ items'[r].error_message = call.result.error
                     /\ run'[r].calls = {"analyze"}
               /\ run'[r].pc = "upload" =>
                     /\ ~Lacking(call.reply)
                     /\ items'[r].title
                           = call.reply.object["title"].text]_vars

C39_Witness ==
    /\ call.fn = "analyzeImage"
    /\ call.reply.text = "fenced json"
    /\ DOMAIN call.reply.object = {"title", "description", "tags"}
    /\ \E r \in 1..Len(run) :
          /\ run[r].pc = "done"
          /\ run[r].failed = "analyze"
          /\ items[r].error_message = MissingFieldsError

\* ---- the settings table -----------------------------------------------------------
\* C40: a start of the process (initDatabase) keeps every stored setting,
\* inserts the default for each default key that has no row, and leaves
\* products and logs as they are; running initDatabase again changes
\* nothing; setSetting(k, v) makes getSetting(k) return v and leaves every
\* other key as it is.
C40_InitKeepsSettings ==
    [][/\ startFolderWatcher =>
            /\ \A k \in DOMAIN settings :
                  k \in DOMAIN settings' /\ settings'[k] = settings[k]
            /\ DOMAIN settings'
                  = DOMAIN settings
                      \cup {"blueprint_id", "print_provider_id",
                            "default_price", "variant_ids", "auto_process"}
            /\ "auto_process" \notin DOMAIN settings
                  => settings'["auto_process"] = "true"
            /\ "variant_ids" \notin DOMAIN settings
                  => settings'["variant_ids"] = "[]"
            /\ "default_price" \notin DOMAIN settings
                  => settings'["default_price"] = "1999"
            /\ initDatabase(settings') = settings'
            /\ items' = items
            /\ logs' = logs
       /\ \A k \in SettingKeys, v \in SettingValues :
            setSetting(k, v) =>
               /\ getSetting(k)' = v
               /\ DOMAIN settings' = DOMAIN settings \cup {k}
               /\ \A j \in DOMAIN settings \ {k} :
                     settings'[j] = settings[j]]_vars

C40_Witness ==
    /\ getSetting("auto_process") = "false"
    /\ getSetting("variant_ids") = "[12345]"
    /\ getSetting("theme_color") = "false"
    /\ getSetting("default_price") = "1999"
    /\ \E r \in 1..Len(run) :
          /\ ~run[r].current
          /\ items[r].status = "completed"
          /\ Len(logs[r]) > 0

====
